---- MODULE Spec2Model ----
(***************************************************************************)
(* Lecture AI-processing lifecycle and enrollment-progress aggregation of  *)
(* the e-learning platform's REST API.                                     *)
(*                                                                         *)
(* Every request handler is an async function: it runs without             *)
(* interruption between two awaits and other requests may run at each      *)
(* await.  A handler is therefore one action per stretch of code between   *)
(* awaited store or network calls.  A request occupies a slot of `req`,    *)
(* which holds the handler's position (pc) and its local variables: the    *)
(* Mongoose document it loaded (doc), the set of paths it modified since   *)
(* the last save (mod) and its inputs.                                     *)
(*                                                                         *)
(* Document.save() of a loaded document sends only the modified paths      *)
(* ($set), array pushes as $push, and guards positional array writes with  *)
(* the version key __v.                                                    *)
(***************************************************************************)
EXTENDS Integers, Sequences, FiniteSets, TLC

(* ---------------------------------------------------------------- bounds *)

\* lecture ids the store hands out (ObjectIds are never reused)
MaxLectures == 2
\* order values a request may carry (validateLecture: integer >= 1)
MaxOrder == 2
\* lectures of the course whose lectures are completed one after the other
MaxCourseLectures == 4
\* largest timestamp new Date() returns
MaxClock == 2
\* largest watchTime a progress request carries
MaxWatch == 1
\* cap on the accumulated totalWatchTime
MaxTotalWatch == 3
\* how far below zero repeated cancellations may take enrollmentCount
MaxOverdrawn == 1
\* lectures the demo server is asked to create
MaxDemoLectures == 3

\* request slots: handlers that may be in flight at the same time
Slots == {"r1", "r2"}
\* sequential runs use one slot
SeqSlots == {"r1"}

LectureIds == 1..MaxLectures
Orders == 1..MaxOrder

(* ------------------------------------------------------------ vocabulary *)

Undefined == "<undefined>"
NoDate == 0

\* contentType enum of the Lecture schema (audio behaves as video everywhere)
ContentTypes == {"text", "video", "ai-generated"}
\* aiProcessing.status enum of the Lecture schema
ProcessingStatuses == {"pending", "processing", "completed", "failed"}
\* request bodies' textContent: absent, empty, or one of two texts
Texts == {Undefined, "", "a", "b"}
\* who sends a professor-only request: the course's professor, another
\* professor, an admin
Actors == {"owner", "other", "admin"}

Truthy(s) == s # Undefined /\ s # ""

VARIABLES
    lectures,        \* Lecture collection: lecture id -> document
    nextLectureId,   \* next id the store hands out
    courseLectures,  \* course.lectures: array of lecture ids
    enrollmentCount, \* course.enrollmentCount
    courseRating,    \* course.rating: average (in tenths) and count
    aiLecture,       \* the lecture of the generate-ai and ai-status routes
    demo,            \* the demo server: its lectures array, the timers set
                     \* and not yet fired, the ids used, its last response
    enrollments,     \* Enrollment collection: student -> document
    clock,           \* last timestamp handed out by new Date()
    req              \* request slots

vars == <<lectures, nextLectureId, courseLectures, enrollmentCount,
          courseRating, aiLecture, demo, enrollments, clock, req>>

(* ------------------------------------------------------------- responses *)

Resp(status, message) == [status |-> status, message |-> message]
NoResp == Resp(0, "")

\* a slot with no request in flight; op and res are the route and the
\* response of the request that last used the slot
Idle(op, res) ==
    [pc |-> "idle", op |-> op, lec |-> 0, in |-> <<>>, doc |-> <<>>,
     mod |-> {}, res |-> res]

IsIdle(r) == req[r].pc = "idle"

\* a request enters its handler
Begin(r, op, pc, lec, in, doc, mod) ==
    req' = [req EXCEPT ![r] = [pc |-> pc, op |-> op, lec |-> lec, in |-> in,
                               doc |-> doc, mod |-> mod, res |-> NoResp]]

\* the handler goes on to its next await
Goto(r, pc, doc, mod) ==
    req' = [req EXCEPT ![r].pc = pc, ![r].doc = doc, ![r].mod = mod]

\* res.status(...).json(...) followed by the handler's return
Respond(r, op, status, message) ==
    req' = [req EXCEPT ![r] = Idle(op, Resp(status, message))]

\* new Date(): time has advanced since the last timestamp was taken
Now == clock + 1

(* ------------------------------------------------------- Lecture schema *)

\* new Lecture(lectureData): the schema's defaults for the paths not given
NewLecture(order, contentType, textContent) ==
    [order |-> order, contentType |-> contentType, textContent |-> textContent,
     status |-> "pending", progress |-> 0, errorMessage |-> Undefined,
     processedAt |-> NoDate, media |-> "none",
     isPublished |-> FALSE, publishedAt |-> NoDate]

\* the paths of aiProcessing that an assignment of the whole object replaces
AiPaths == {"status", "progress", "errorMessage", "processedAt"}

\* doc.path = value: Mongoose marks the path modified when the value differs
SetPath(doc, mod, path, value) ==
    [doc |-> [doc EXCEPT ![path] = value],
     mod |-> IF doc[path] = value THEN mod ELSE mod \cup {path}]

\* lectureSchema.pre('save'): publishedAt is set once, when isPublished
\* changes to true
PreSaveLecture(doc, mod, now) ==
    IF "isPublished" \in mod /\ doc.isPublished /\ doc.publishedAt = NoDate
    THEN [doc |-> [doc EXCEPT !.publishedAt = now],
          mod |-> mod \cup {"publishedAt"}]
    ELSE [doc |-> doc, mod |-> mod]

\* the update save() sends: $set of the modified paths only
ApplyModified(stored, doc, mod) ==
    LET Pick(path) == IF path \in mod THEN doc[path] ELSE stored[path]
    IN  [order |-> Pick("order"), contentType |-> Pick("contentType"),
         textContent |-> Pick("textContent"), status |-> Pick("status"),
         progress |-> Pick("progress"), errorMessage |-> Pick("errorMessage"),
         processedAt |-> Pick("processedAt"), media |-> Pick("media"),
         isPublished |-> Pick("isPublished"), publishedAt |-> Pick("publishedAt")]

\* Lecture.findOne({ course, order, _id: { $ne: except } })
OrderTaken(order, except) ==
    \E l \in DOMAIN lectures : l # except /\ lectures[l].order = order

\* req.user.role !== 'admin' && course.professor !== req.user._id
AccessDenied(actor) == actor # "admin" /\ actor # "owner"

\* inputs a slot keeps for the later steps of its handler
NoInput == [order |-> 0, contentType |-> "none", textContent |-> Undefined,
            file |-> Undefined, student |-> "none", watchTime |-> 0,
            completionPercentage |-> 0]

LectureUnchanged == UNCHANGED <<lectures, nextLectureId, courseLectures>>
EnrollmentUnchanged == UNCHANGED <<enrollments, enrollmentCount, courseRating>>
AiLectureUnchanged == UNCHANGED aiLecture
DemoUnchanged == UNCHANGED demo

(* ---------------------------------------------- POST /api/lectures (create) *)

\* creates that passed their checks and have not inserted yet
PendingCreates == Cardinality({r \in Slots : req[r].pc = "create:save"})

\* the store can hand out another id: ids run up to maxId
CanCreate(maxId) == nextLectureId + PendingCreates <= maxId

\* validation, Course.findOne, the order check, new Lecture(lectureData)
CreateLecture_Check(r, maxId, actor, valid, order, contentType, textContent, file) ==
    /\ IsIdle(r)
    /\ CanCreate(maxId)
    /\ LET finalTextContent ==
               IF file # Undefined /\ contentType = "text" THEN file ELSE textContent
       IN  IF ~valid
           THEN Respond(r, "createLecture", 400, "Validation errors")
           ELSE IF actor # "owner"
           THEN Respond(r, "createLecture", 404, "Course not found or access denied")
           ELSE IF OrderTaken(order, 0)
           THEN Respond(r, "createLecture", 400,
                        "A lecture with this order already exists in the course")
           ELSE Begin(r, "createLecture", "create:save", 0,
                      [NoInput EXCEPT !.contentType = contentType,
                                      !.textContent = finalTextContent],
                      NewLecture(order, contentType, finalTextContent), {})
    /\ LectureUnchanged /\ EnrollmentUnchanged /\ UNCHANGED clock /\ AiLectureUnchanged /\ DemoUnchanged

\* await lecture.save(): the insert
CreateLecture_Save(r) ==
    /\ req[r].pc = "create:save"
    /\ lectures' = (nextLectureId :> req[r].doc) @@ lectures
    /\ nextLectureId' = nextLectureId + 1
    /\ req' = [req EXCEPT ![r].pc = "create:push", ![r].lec = nextLectureId]
    /\ EnrollmentUnchanged /\ UNCHANGED <<courseLectures, clock>> /\ AiLectureUnchanged /\ DemoUnchanged

\* Course.findByIdAndUpdate(courseId, { $push: { lectures: lecture._id } })
CreateLecture_Push(r) ==
    /\ req[r].pc = "create:push"
    /\ courseLectures' = Append(courseLectures, req[r].lec)
    /\ IF req[r].in.contentType = "ai-generated" /\ Truthy(req[r].in.textContent)
       THEN Goto(r, "create:handoff", req[r].doc, {})
       ELSE Respond(r, "createLecture", 201, "Lecture created successfully")
    /\ EnrollmentUnchanged /\ UNCHANGED <<lectures, nextLectureId, clock>> /\ AiLectureUnchanged /\ DemoUnchanged

\* Course.findByIdAndUpdate rejects (the store cannot be reached): the
\* handler's catch answers 500; the lecture saved before stays stored
CreateLecture_PushFails(r) ==
    /\ req[r].pc = "create:push"
    /\ Respond(r, "createLecture", 500, "Server error creating lecture")
    /\ LectureUnchanged /\ EnrollmentUnchanged /\ UNCHANGED clock /\ AiLectureUnchanged /\ DemoUnchanged

\* axios.post(process-lecture) resolves (accepted) or rejects
CreateLecture_HandOff(r, accepted) ==
    /\ req[r].pc = "create:handoff"
    /\ LET s1 == SetPath(req[r].doc, {}, "status",
                         IF accepted THEN "processing" ELSE "failed")
           s2 == IF accepted THEN s1
                 ELSE SetPath(s1.doc, s1.mod, "errorMessage",
                              "Failed to start AI processing")
       IN  Goto(r, "create:saveStatus", s2.doc, s2.mod)
    /\ LectureUnchanged /\ EnrollmentUnchanged /\ UNCHANGED clock /\ AiLectureUnchanged /\ DemoUnchanged

\* await lecture.save() after the hand-off; a save of a document that is no
\* longer stored throws, and the outer catch answers 500
CreateLecture_SaveStatus(r) ==
    /\ req[r].pc = "create:saveStatus"
    /\ IF req[r].lec \in DOMAIN lectures
       THEN /\ lectures' = [lectures EXCEPT ![req[r].lec] =
                               ApplyModified(@, req[r].doc, req[r].mod)]
            /\ Respond(r, "createLecture", 201, "Lecture created successfully")
       ELSE /\ UNCHANGED lectures
            /\ Respond(r, "createLecture", 500, "Server error creating lecture")
    /\ EnrollmentUnchanged /\ UNCHANGED <<nextLectureId, courseLectures, clock>> /\ AiLectureUnchanged /\ DemoUnchanged

(* ------------------------------------------- PUT /api/lectures/:id (update) *)

\* lines 1249-1292: the assignments to the loaded document and, for
\* ai-generated content, the reset of aiProcessing; contentType has been
\* assigned to the document before it is compared with it
UpdateFields(doc, order, contentType, textContent, file) ==
    LET finalTextContent ==
            IF file # Undefined /\ contentType = "text" THEN file ELSE textContent
        s1 == SetPath(doc, {}, "order", order)
        s2 == SetPath(s1.doc, s1.mod, "contentType", contentType)
        s3 == IF Truthy(finalTextContent)
              THEN SetPath(s2.doc, s2.mod, "textContent", finalTextContent)
              ELSE s2
        reset == /\ contentType = "ai-generated"
                 /\ (\/ s3.doc.textContent # textContent
                     \/ contentType # s3.doc.contentType)
    IN  IF reset
        THEN [doc |-> [s3.doc EXCEPT !.status = "pending", !.progress = 0,
                                     !.errorMessage = Undefined,
                                     !.processedAt = NoDate, !.media = "none"],
              mod |-> s3.mod \cup AiPaths \cup {"media"},
              reset |-> TRUE]
        ELSE [doc |-> s3.doc, mod |-> s3.mod, reset |-> FALSE]

\* the handler from the order check on, up to its next await
UpdateLecture_Apply(r, op, lec, doc, in) ==
    LET u == UpdateFields(doc, in.order, in.contentType, in.textContent, in.file)
    IN  Begin(r, op, IF u.reset THEN "update:handoff" ELSE "update:save",
              lec, NoInput, u.doc, u.mod)

\* validation, Lecture.findById, the ownership check; with an unchanged
\* order the handler goes on to the assignments
UpdateLecture_Find(r, lec, actor, valid, order, contentType, textContent, file) ==
    /\ IsIdle(r)
    /\ LET in == [order |-> order, contentType |-> contentType,
                  textContent |-> textContent, file |-> file]
              @@ NoInput
       IN  IF ~valid
           THEN Respond(r, "updateLecture", 400, "Validation errors")
           ELSE IF lec \notin DOMAIN lectures
           THEN Respond(r, "updateLecture", 404, "Lecture not found")
           ELSE IF AccessDenied(actor)
           THEN Respond(r, "updateLecture", 403,
                        "Access denied. You can only update your own course lectures.")
           ELSE IF order # lectures[lec].order
           THEN Begin(r, "updateLecture", "update:checkOrder", lec, in,
                      lectures[lec], {})
           ELSE UpdateLecture_Apply(r, "updateLecture", lec, lectures[lec], in)
    /\ LectureUnchanged /\ EnrollmentUnchanged /\ UNCHANGED clock /\ AiLectureUnchanged /\ DemoUnchanged

\* Lecture.findOne({ course, order, _id: { $ne: lecture._id } })
UpdateLecture_CheckOrder(r) ==
    /\ req[r].pc = "update:checkOrder"
    /\ IF OrderTaken(req[r].in.order, req[r].lec)
       THEN Respond(r, "updateLecture", 400,
                    "A lecture with this order already exists in the course")
       ELSE UpdateLecture_Apply(r, "updateLecture", req[r].lec, req[r].doc, req[r].in)
    /\ LectureUnchanged /\ EnrollmentUnchanged /\ UNCHANGED clock /\ AiLectureUnchanged /\ DemoUnchanged

\* a plausible slip: the rejection is left to the handler's outer catch
UpdateLecture_HandOff_Uncaught(r, accepted) ==
    /\ req[r].pc = "update:handoff"
    /\ IF accepted
       THEN Goto(r, "update:save", [req[r].doc EXCEPT !.status = "processing"],
                 req[r].mod)
       ELSE Respond(r, "updateLecture", 500, "Server error updating lecture")
    /\ LectureUnchanged /\ EnrollmentUnchanged /\ UNCHANGED clock /\ AiLectureUnchanged /\ DemoUnchanged

\* axios.post(process-lecture) resolves (accepted) or rejects
UpdateLecture_HandOff(r, accepted) ==
    /\ req[r].pc = "update:handoff"
    /\ LET doc == req[r].doc
       IN  Goto(r, "update:save",
                IF accepted
                THEN [doc EXCEPT !.status = "processing"]
                ELSE [doc EXCEPT !.status = "failed",
                                 !.errorMessage = "Failed to restart AI processing"],
                req[r].mod)
    /\ LectureUnchanged /\ EnrollmentUnchanged /\ UNCHANGED clock /\ AiLectureUnchanged /\ DemoUnchanged

\* await lecture.save()
UpdateLecture_Save(r) ==
    /\ req[r].pc = "update:save"
    /\ IF req[r].mod = {}
       THEN /\ UNCHANGED lectures
            /\ Respond(r, "updateLecture", 200, "Lecture updated successfully")
       ELSE IF req[r].lec \in DOMAIN lectures
       THEN /\ lectures' = [lectures EXCEPT ![req[r].lec] =
                               ApplyModified(@, req[r].doc, req[r].mod)]
            /\ Respond(r, "updateLecture", 200, "Lecture updated successfully")
       ELSE /\ UNCHANGED lectures
            /\ Respond(r, "updateLecture", 500, "Server error updating lecture")
    /\ EnrollmentUnchanged /\ UNCHANGED <<nextLectureId, courseLectures, clock>> /\ AiLectureUnchanged /\ DemoUnchanged

(* ---------------------------------------- DELETE /api/lectures/:id (delete) *)

\* Lecture.findById and the ownership check
DeleteLecture_Find(r, lec, actor) ==
    /\ IsIdle(r)
    /\ IF lec \notin DOMAIN lectures
       THEN Respond(r, "deleteLecture", 404, "Lecture not found")
       ELSE IF AccessDenied(actor)
       THEN Respond(r, "deleteLecture", 403,
                    "Access denied. You can only delete your own course lectures.")
       ELSE Begin(r, "deleteLecture", "delete:pull", lec, NoInput, lectures[lec], {})
    /\ LectureUnchanged /\ EnrollmentUnchanged /\ UNCHANGED clock /\ AiLectureUnchanged /\ DemoUnchanged

\* Course.findByIdAndUpdate(course, { $pull: { lectures: lecture._id } })
DeleteLecture_Pull(r) ==
    /\ req[r].pc = "delete:pull"
    /\ courseLectures' = SelectSeq(courseLectures, LAMBDA l : l # req[r].lec)
    /\ Goto(r, "delete:delete", req[r].doc, {})
    /\ EnrollmentUnchanged /\ UNCHANGED <<lectures, nextLectureId, clock>> /\ AiLectureUnchanged /\ DemoUnchanged

\* Lecture.findByIdAndDelete(req.params.id)
DeleteLecture_Delete(r) ==
    /\ req[r].pc = "delete:delete"
    /\ lectures' = [l \in DOMAIN lectures \ {req[r].lec} |-> lectures[l]]
    /\ Respond(r, "deleteLecture", 200, "Lecture deleted successfully")
    /\ EnrollmentUnchanged /\ UNCHANGED <<nextLectureId, courseLectures, clock>> /\ AiLectureUnchanged /\ DemoUnchanged

(* --------------------------------------- PUT /api/lectures/:id/publish *)

\* a plausible slip: only a running job blocks publishing
ProcessingIncomplete_OnlyRunning(lecture) ==
    lecture.contentType = "ai-generated" /\ lecture.status = "processing"

\* lecture.contentType === 'ai-generated' &&
\* lecture.aiProcessing.status !== 'completed'
ProcessingIncomplete(lecture) ==
    lecture.contentType = "ai-generated" /\ lecture.status # "completed"

\* the body check, Lecture.findById, the ownership check, the check that
\* ai-generated content has been processed, lecture.isPublished = isPublished
PublishLecture_Check(r, lec, actor, valid, isPublished) ==
    /\ IsIdle(r)
    /\ IF ~valid
       THEN Respond(r, "publishLecture", 400, "isPublished must be a boolean value")
       ELSE IF lec \notin DOMAIN lectures
       THEN Respond(r, "publishLecture", 404, "Lecture not found")
       ELSE IF AccessDenied(actor)
       THEN Respond(r, "publishLecture", 403,
                    "Access denied. You can only publish your own course lectures.")
       ELSE IF isPublished /\ ProcessingIncomplete(lectures[lec])
       THEN Respond(r, "publishLecture", 400,
                    "Cannot publish AI-generated lecture until processing is complete")
       ELSE LET s == SetPath(lectures[lec], {}, "isPublished", isPublished)
            IN  Begin(r, "publishLecture", "publish:save", lec, NoInput, s.doc, s.mod)
    /\ LectureUnchanged /\ EnrollmentUnchanged /\ UNCHANGED clock /\ AiLectureUnchanged /\ DemoUnchanged

\* await lecture.save(), with the schema's pre-save hook
PublishLecture_Save(r) ==
    /\ req[r].pc = "publish:save"
    /\ LET s == PreSaveLecture(req[r].doc, req[r].mod, Now)
           op == "publishLecture"
           message == IF s.doc.isPublished THEN "Lecture published successfully"
                      ELSE "Lecture unpublished successfully"
       IN  IF s.mod = {}
           THEN /\ UNCHANGED <<lectures, clock>>
                /\ Respond(r, op, 200, message)
           ELSE IF req[r].lec \in DOMAIN lectures
           THEN /\ "publishedAt" \in s.mod => clock < MaxClock
                /\ lectures' = [lectures EXCEPT ![req[r].lec] =
                                   ApplyModified(@, s.doc, s.mod)]
                /\ clock' = IF "publishedAt" \in s.mod THEN Now ELSE clock
                /\ Respond(r, op, 200, message)
           ELSE /\ UNCHANGED <<lectures, clock>>
                /\ Respond(r, op, 500, "Server error publishing lecture")
    /\ EnrollmentUnchanged /\ UNCHANGED <<nextLectureId, courseLectures>> /\ AiLectureUnchanged /\ DemoUnchanged

(* ------------------------------ GET /api/lectures/:id/processing-status *)

\* a plausible slip: the read gives up on a job that has not reported and
\* stores the lecture as failed
ProcessingStatus_TimesOut(r, lec, actor) ==
    /\ IsIdle(r)
    /\ IF lec \notin DOMAIN lectures
       THEN /\ Respond(r, "processingStatus", 404, "Lecture not found")
            /\ UNCHANGED lectures
       ELSE IF AccessDenied(actor)
       THEN /\ Respond(r, "processingStatus", 403, "Access denied")
            /\ UNCHANGED lectures
       ELSE /\ Respond(r, "processingStatus", 200, lectures[lec].status)
            /\ lectures' = [lectures EXCEPT ![lec].status =
                               IF @ = "processing" THEN "failed" ELSE @]
    /\ EnrollmentUnchanged /\ UNCHANGED <<nextLectureId, courseLectures, clock>> /\ AiLectureUnchanged /\ DemoUnchanged

\* reads the stored status and changes nothing
ProcessingStatus(r, lec, actor) ==
    /\ IsIdle(r)
    /\ IF lec \notin DOMAIN lectures
       THEN Respond(r, "processingStatus", 404, "Lecture not found")
       ELSE IF AccessDenied(actor)
       THEN Respond(r, "processingStatus", 403, "Access denied")
       ELSE Respond(r, "processingStatus", 200, lectures[lec].status)
    /\ LectureUnchanged /\ EnrollmentUnchanged /\ UNCHANGED clock /\ AiLectureUnchanged /\ DemoUnchanged

(* ------------------------------------ POST /api/lectures/:id/reprocess *)

\* Lecture.findById, the checks, the reset of the processing state
ReprocessLecture_Check(r, lec, actor) ==
    /\ IsIdle(r)
    /\ IF lec \notin DOMAIN lectures
       THEN Respond(r, "reprocessLecture", 404, "Lecture not found")
       ELSE IF AccessDenied(actor)
       THEN Respond(r, "reprocessLecture", 403, "Access denied")
       ELSE IF lectures[lec].contentType # "ai-generated"
       THEN Respond(r, "reprocessLecture", 400,
                    "Only AI-generated lectures can be reprocessed")
       ELSE IF ~Truthy(lectures[lec].textContent)
       THEN Respond(r, "reprocessLecture", 400,
                    "No text content available for processing")
       ELSE LET s1 == SetPath(lectures[lec], {}, "status", "pending")
                s2 == SetPath(s1.doc, s1.mod, "progress", 0)
                s3 == SetPath(s2.doc, s2.mod, "errorMessage", "")
            IN  Begin(r, "reprocessLecture", "reprocess:save", lec, NoInput,
                      [s3.doc EXCEPT !.media = "none"], s3.mod \cup {"media"})
    /\ LectureUnchanged /\ EnrollmentUnchanged /\ UNCHANGED clock /\ AiLectureUnchanged /\ DemoUnchanged

\* a plausible slip: the reset is not saved before the hand-off
ReprocessLecture_Save_Skipped(r) ==
    /\ req[r].pc = "reprocess:save"
    /\ Goto(r, "reprocess:handoff", req[r].doc, req[r].mod)
    /\ LectureUnchanged /\ EnrollmentUnchanged /\ UNCHANGED clock /\ AiLectureUnchanged /\ DemoUnchanged

\* the first await lecture.save(): a failure is answered by the outer catch
ReprocessLecture_Save(r) ==
    /\ req[r].pc = "reprocess:save"
    /\ IF req[r].lec \in DOMAIN lectures
       THEN /\ lectures' = [lectures EXCEPT ![req[r].lec] =
                               ApplyModified(@, req[r].doc, req[r].mod)]
            /\ Goto(r, "reprocess:handoff", req[r].doc, {})
       ELSE /\ UNCHANGED lectures
            /\ Respond(r, "reprocessLecture", 500, "Server error reprocessing lecture")
    /\ EnrollmentUnchanged /\ UNCHANGED <<nextLectureId, courseLectures, clock>> /\ AiLectureUnchanged /\ DemoUnchanged

\* axios.post(process-lecture) resolves (accepted) or rejects
ReprocessLecture_HandOff(r, accepted) ==
    /\ req[r].pc = "reprocess:handoff"
    /\ LET s1 == SetPath(req[r].doc, {}, "status",
                         IF accepted THEN "processing" ELSE "failed")
           s2 == IF accepted THEN s1
                 ELSE SetPath(s1.doc, s1.mod, "errorMessage",
                              "Failed to restart AI processing")
       IN  Goto(r, "reprocess:saveStatus", s2.doc, s2.mod)
    /\ LectureUnchanged /\ EnrollmentUnchanged /\ UNCHANGED clock /\ AiLectureUnchanged /\ DemoUnchanged

\* the second await lecture.save()
ReprocessLecture_SaveStatus(r) ==
    /\ req[r].pc = "reprocess:saveStatus"
    /\ IF req[r].lec \in DOMAIN lectures
       THEN /\ lectures' = [lectures EXCEPT ![req[r].lec] =
                               ApplyModified(@, req[r].doc, req[r].mod)]
            /\ Respond(r, "reprocessLecture", 200,
                       "AI processing restarted successfully")
       ELSE /\ UNCHANGED lectures
            /\ Respond(r, "reprocessLecture", 500, "Server error reprocessing lecture")
    /\ EnrollmentUnchanged /\ UNCHANGED <<nextLectureId, courseLectures, clock>> /\ AiLectureUnchanged /\ DemoUnchanged

(* -------------------------------------------- the generation service *)

\* The generation service reports the end of a job for a lecture in status
\* processing: success stores the media references and processedAt (the
\* service's own time, 1 for "set"), failure stores an errorMessage.
GenerationReport(lec, success) ==
    /\ lec \in DOMAIN lectures
    /\ lectures[lec].status = "processing"
    /\ lectures' = [lectures EXCEPT ![lec] =
           IF success
           THEN [@ EXCEPT !.status = "completed", !.progress = 100,
                          !.media = "generated", !.processedAt = 1]
           ELSE [@ EXCEPT !.status = "failed",
                          !.errorMessage = "Generation failed"]]
    /\ EnrollmentUnchanged /\ UNCHANGED <<nextLectureId, courseLectures, clock, req>> /\ AiLectureUnchanged /\ DemoUnchanged

(* ------------------------------ POST /api/lectures/:id/generate-ai *)

\* The lecture these two routes work on, before a generation was started:
\* aiGenerated is not set and the lecture has no video.  No route assigns a
\* path processedAt.
NewAiLecture ==
    [isGenerated |-> FALSE, processingStatus |-> Undefined,
     processingJobId |-> Undefined, processingLog |-> <<>>,
     video |-> "none", processedAt |-> NoDate]

\* the ids of these routes' requests: lecture 1 is stored, lecture 2 is not
AiLectureIds == {1, 2}

\* processingLog: ['AI lecture generation initiated']
InitialLog(lecture) == <<"AI lecture generation initiated">>

\* the check of sourceText, Lecture.findById, the authorization check and
\* the assignment of lecture.aiGenerated
GenerateAi_Find(r, lec, actor, sourceText) ==
    /\ IsIdle(r)
    /\ IF ~Truthy(sourceText)
       THEN Respond(r, "generateAi", 400,
                    "Source text is required for AI lecture generation")
       ELSE IF lec # 1
       THEN Respond(r, "generateAi", 404, "Lecture not found")
       ELSE IF actor = "other"
       THEN Respond(r, "generateAi", 403, "Not authorized to update this lecture")
       ELSE Begin(r, "generateAi", "generate:save", lec, NoInput,
                  [aiLecture EXCEPT !.isGenerated = TRUE,
                                    !.processingStatus = "pending",
                                    !.processingJobId = Undefined,
                                    !.processingLog = InitialLog(aiLecture)],
                  {})
    /\ LectureUnchanged /\ EnrollmentUnchanged /\ AiLectureUnchanged /\ UNCHANGED clock /\ DemoUnchanged

\* await lecture.save({ validateBeforeSave: false })
GenerateAi_Save(r) ==
    /\ req[r].pc = "generate:save"
    /\ aiLecture' = req[r].doc
    /\ Goto(r, "generate:handOff", req[r].doc, {})
    /\ LectureUnchanged /\ EnrollmentUnchanged /\ UNCHANGED clock /\ DemoUnchanged

\* axios.post(.../api/generate-lecture): the service accepts the job and
\* answers with data.jobId, or the call fails
GenerateAi_HandOff(r, accepted, jobId) ==
    /\ req[r].pc = "generate:handOff"
    /\ IF accepted
       THEN Goto(r, "generate:saveStarted",
                 [req[r].doc EXCEPT
                     !.processingStatus = "processing",
                     !.processingJobId = jobId,
                     !.processingLog = Append(@, "Processing started with ML service")],
                 {})
       ELSE Goto(r, "generate:saveFailed",
                 [req[r].doc EXCEPT
                     !.processingStatus = "failed",
                     !.processingLog = Append(@, "Processing failed: timeout")],
                 {})
    /\ LectureUnchanged /\ EnrollmentUnchanged /\ AiLectureUnchanged /\ UNCHANGED clock /\ DemoUnchanged

\* the save after the hand-off and the response: 202 when the job was
\* accepted, 500 when the call failed
GenerateAi_SaveStatus(r) ==
    /\ req[r].pc \in {"generate:saveStarted", "generate:saveFailed"}
    /\ aiLecture' = req[r].doc
    /\ IF req[r].pc = "generate:saveStarted"
       THEN Respond(r, "generateAi", 202, "AI lecture generation started")
       ELSE Respond(r, "generateAi", 500,
                    "AI lecture generation service is currently unavailable. Please try again later.")
    /\ LectureUnchanged /\ EnrollmentUnchanged /\ UNCHANGED clock /\ DemoUnchanged

(* --------------------------------- GET /api/lectures/:id/ai-status *)

\* Lecture.findById, the authorization check and the check that a generation
\* was started; the service is asked when the lecture is processing and has a
\* job id
AiStatus_Find(r, lec, actor) ==
    /\ IsIdle(r)
    /\ IF lec # 1
       THEN Respond(r, "aiStatus", 404, "Lecture not found")
       ELSE IF actor = "other"
       THEN Respond(r, "aiStatus", 403, "Not authorized to access this lecture")
       ELSE IF ~aiLecture.isGenerated
       THEN Respond(r, "aiStatus", 404, "No AI generation found for this lecture")
       ELSE IF aiLecture.processingStatus = "processing" /\ Truthy(aiLecture.processingJobId)
       THEN Begin(r, "aiStatus", "status:poll", lec, NoInput, aiLecture, {})
       ELSE Respond(r, "aiStatus", 200, aiLecture.processingStatus)
    /\ LectureUnchanged /\ EnrollmentUnchanged /\ AiLectureUnchanged /\ UNCHANGED clock /\ DemoUnchanged

\* what the service answers to a poll: its status of the job and whether the
\* answer has a videoUrl
MlStatuses == [status : {"processing", "completed", "failed"}, videoUrl : BOOLEAN]

\* if (mlStatus.status === 'completed' && mlStatus.videoUrl) lecture.video = ...
PolledVideo(lecture, mlStatus) ==
    IF mlStatus.status = "completed" /\ mlStatus.videoUrl
    THEN "generated" ELSE lecture.video

\* the entries the poll pushes to the log when the status has changed
PolledLog(lecture, mlStatus) ==
    LET updated == Append(lecture.processingLog, "Status updated")
    IN  IF mlStatus.status = "completed" /\ mlStatus.videoUrl
        THEN Append(updated, "AI lecture generation completed successfully")
        ELSE IF mlStatus.status = "failed"
        THEN Append(updated, "Generation failed")
        ELSE updated

\* axios.get(.../api/processing-status/:jobId) and what the handler does with
\* the answer up to its save; an unreachable service is answered 200 with the
\* stored status
AiStatus_Poll(r, reachable, mlStatus) ==
    /\ req[r].pc = "status:poll"
    /\ IF ~reachable
       THEN Respond(r, "aiStatus", 200,
                    "Unable to fetch current status from processing service")
       ELSE IF mlStatus.status = req[r].doc.processingStatus
       THEN Respond(r, "aiStatus", 200, req[r].doc.processingStatus)
       ELSE Goto(r, "status:save",
                 [req[r].doc EXCEPT
                     !.processingStatus = mlStatus.status,
                     !.processingLog = PolledLog(req[r].doc, mlStatus),
                     !.video = PolledVideo(req[r].doc, mlStatus)],
                 {})
    /\ LectureUnchanged /\ EnrollmentUnchanged /\ AiLectureUnchanged /\ UNCHANGED clock /\ DemoUnchanged

\* await lecture.save({ validateBeforeSave: false }) and the response
AiStatus_Save(r) ==
    /\ req[r].pc = "status:save"
    /\ aiLecture' = req[r].doc
    /\ Respond(r, "aiStatus", 200, req[r].doc.processingStatus)
    /\ LectureUnchanged /\ EnrollmentUnchanged /\ UNCHANGED clock /\ DemoUnchanged

(* ------------------------------------- the in-memory demo server *)

\* The handlers of the demo server have no await: each runs as one step.
\* The callback of a setTimeout runs as a step of its own, later.

\* the sample lecture that the listen callback pushes at startup
SampleLecture ==
    [id |-> 0, status |-> "completed", videoUrl |-> "/api/videos/ml-intro.mp4"]

\* let lectures = [] with the sample lecture; no timer set, no response sent
NewDemo ==
    [lectures |-> <<SampleLecture>>, timers |-> {}, nextId |-> 1, res |-> NoResp]

\* the ids uuidv4() hands out, never one twice
DemoIds == 1..MaxDemoLectures

\* a plausible slip: the lecture generated within the request
NewDemoLecture_Generated(id) ==
    [id |-> id, status |-> "completed", videoUrl |-> "/api/videos/sample.mp4"]

\* the lecture object of a create request
NewDemoLecture(id) == [id |-> id, status |-> "processing", videoUrl |-> Undefined]

\* lectures.findIndex(l => l.id === id), 0 for -1
DemoIndex(id) ==
    IF \E i \in 1..Len(demo.lectures) : demo.lectures[i].id = id
    THEN CHOOSE i \in 1..Len(demo.lectures) :
            /\ demo.lectures[i].id = id
            /\ \A j \in 1..(i - 1) : demo.lectures[j].id # id
    ELSE 0

\* the other variables of the model
ApiUnchanged ==
    /\ LectureUnchanged /\ EnrollmentUnchanged /\ AiLectureUnchanged
    /\ UNCHANGED <<clock, req>>

\* app.post('/api/lectures'): the check of title and content, lectures.push,
\* setTimeout and the response, which carries the lecture
DemoCreate(title, content) ==
    /\ IF ~Truthy(title) \/ ~Truthy(content)
       THEN demo' = [demo EXCEPT !.res = Resp(400, "Title and content are required")]
       ELSE /\ demo.nextId <= MaxDemoLectures
            /\ LET lecture == NewDemoLecture(demo.nextId)
               IN  demo' = [lectures |-> Append(demo.lectures, lecture),
                            timers |-> demo.timers \cup {lecture.id},
                            nextId |-> demo.nextId + 1,
                            res |-> Resp(201, lecture.status)]
    /\ ApiUnchanged

\* a plausible slip: the callback pushes the lecture when it is not found
DemoTimer_Reinserts(id) ==
    /\ id \in demo.timers
    /\ LET lectureIndex == DemoIndex(id)
           generated == [id |-> id, status |-> "completed",
                         videoUrl |-> "/api/videos/sample.mp4"]
       IN  demo' = [demo EXCEPT
               !.timers = @ \ {id},
               !.lectures = IF lectureIndex # 0
                            THEN [@ EXCEPT ![lectureIndex] = generated]
                            ELSE Append(@, generated)]
    /\ ApiUnchanged

\* the callback of setTimeout fires for the lecture with this id
DemoTimer(id) ==
    /\ id \in demo.timers
    /\ LET lectureIndex == DemoIndex(id)
       IN  demo' = [demo EXCEPT
               !.timers = @ \ {id},
               !.lectures = IF lectureIndex # 0
                            THEN [@ EXCEPT ![lectureIndex] =
                                     [@ EXCEPT !.status = "completed",
                                               !.videoUrl = "/api/videos/sample.mp4"]]
                            ELSE @]
    /\ ApiUnchanged

\* app.delete('/api/lectures/:id'): findIndex, splice and the response
DemoDelete(id) ==
    /\ LET index == DemoIndex(id)
       IN  IF index = 0
           THEN demo' = [demo EXCEPT !.res = Resp(404, "Lecture not found")]
           ELSE demo' = [demo EXCEPT
                    !.lectures = SubSeq(@, 1, index - 1) \o SubSeq(@, index + 1, Len(@)),
                    !.res = Resp(200, "Lecture deleted successfully")]
    /\ ApiUnchanged

(* --------------------------------------------------- Enrollment schema *)

Students == {"s1"}

\* rating.score of an enrollment that has not been rated
NoScore == 0

\* new Enrollment({ student, course }): the schema's defaults; v is the
\* version key __v
NewEnrollment ==
    [status |-> "active", completedLectures |-> <<>>, overallProgress |-> 0,
     lastAccessedLecture |-> 0, totalWatchTime |-> 0, completedAt |-> NoDate,
     score |-> NoScore, review |-> Undefined, v |-> 0]

\* a plausible slip: comparing the ObjectId to the string with ===, which
\* matches no record
ExistingIndex_Never(completedLectures, lectureId) == 0

\* findIndex(cl => cl.lecture.toString() === lectureId.toString()): the first
\* record of the lecture, 0 for -1
ExistingIndex(completedLectures, lectureId) ==
    LET found == {i \in 1..Len(completedLectures) :
                     completedLectures[i].lecture = lectureId}
    IN  IF found = {} THEN 0
        ELSE CHOOSE i \in found : \A j \in found : i <= j

\* Math.max
Max(a, b) == IF a >= b THEN a ELSE b

\* a plausible slip: Math.round(completedLectures / totalLectures) * 100
RoundPercent_RoundFirst(n, d) == ((2 * n + d) \div (2 * d)) * 100

\* Math.round of the non-negative quotient 100 * n / d
RoundPercent(n, d) == (200 * n + d) \div (2 * d)

\* a plausible slip: the enrollment completes above 100 instead of at 100
UpdateProgress_CompletesAbove(doc, mod, totalLectures, now) ==
    IF totalLectures > 0
    THEN LET s1 == SetPath(doc, mod, "overallProgress",
                           RoundPercent(Len(doc.completedLectures), totalLectures))
         IN  IF s1.doc.overallProgress > 100 /\ s1.doc.status = "active"
             THEN [doc |-> [s1.doc EXCEPT !.status = "completed",
                                          !.completedAt = now],
                   mod |-> s1.mod \cup {"status", "completedAt"}]
             ELSE s1
    ELSE [doc |-> doc, mod |-> mod]

\* enrollmentSchema.methods.updateProgress, up to its save; the course is
\* populated, totalLectures is the length of its lectures array
UpdateProgress(doc, mod, totalLectures, now) ==
    IF totalLectures > 0
    THEN LET s1 == SetPath(doc, mod, "overallProgress",
                           RoundPercent(Len(doc.completedLectures), totalLectures))
         IN  IF s1.doc.overallProgress >= 100 /\ s1.doc.status = "active"
             THEN [doc |-> [s1.doc EXCEPT !.status = "completed",
                                          !.completedAt = now],
                   mod |-> s1.mod \cup {"status", "completedAt"}]
             ELSE s1
    ELSE [doc |-> doc, mod |-> mod]

\* enrollmentSchema.methods.addCompletedLecture, up to the save in
\* updateProgress.  The marks "$push", "$set.watchTime" and
\* "$set.completionPercentage" stand for the changes to completedLectures.
AddCompletedLecture(doc, lectureId, watchTime, completionPercentage, totalLectures, now) ==
    LET existingIndex == ExistingIndex(doc.completedLectures, lectureId)
        old == doc.completedLectures[existingIndex]
        new == [lecture |-> lectureId,
                watchTime |-> Max(old.watchTime, watchTime),
                completionPercentage |->
                    Max(old.completionPercentage, completionPercentage)]
        s1 == IF existingIndex = 0
              THEN [doc |-> [doc EXCEPT !.completedLectures =
                               Append(@, [lecture |-> lectureId,
                                          watchTime |-> watchTime,
                                          completionPercentage |->
                                              completionPercentage])],
                    mod |-> {"$push"}]
              ELSE [doc |-> [doc EXCEPT !.completedLectures[existingIndex] = new],
                    mod |-> (IF new.watchTime # old.watchTime
                             THEN {"$set.watchTime"} ELSE {})
                            \cup
                            (IF new.completionPercentage # old.completionPercentage
                             THEN {"$set.completionPercentage"} ELSE {})]
        s2 == SetPath(s1.doc, s1.mod, "totalWatchTime",
                      s1.doc.totalWatchTime + watchTime)
        s3 == SetPath(s2.doc, s2.mod, "lastAccessedLecture", lectureId)
    IN  UpdateProgress(s3.doc, s3.mod, totalLectures, now)

\* the validators save() runs on the modified paths: overallProgress has
\* min 0 and max 100
ValidEnrollment(doc, mod) ==
    "overallProgress" \in mod => doc.overallProgress \in 0..100

\* save() guards the writes to positions of an array with the version key
VersionChecked(mod) ==
    "$set.watchTime" \in mod \/ "$set.completionPercentage" \in mod

\* a plausible slip: save() writing the whole document as the request holds it
ApplyEnrollmentUpdate_WholeDocument(stored, doc, mod, lectureId) == doc

\* the update save() sends for the request's lecture: $push of the new
\* record or $set of the changed fields at the record's position, $set of the
\* other modified paths, $inc of __v with a $push
ApplyEnrollmentUpdate(stored, doc, mod, lectureId) ==
    LET Pick(path) == IF path \in mod THEN doc[path] ELSE stored[path]
        i == ExistingIndex(doc.completedLectures, lectureId)
        was == stored.completedLectures[i]
        completedLectures ==
            IF "$push" \in mod
            THEN Append(stored.completedLectures,
                        doc.completedLectures[Len(doc.completedLectures)])
            ELSE IF VersionChecked(mod)
            THEN [stored.completedLectures EXCEPT ![i] =
                    [lecture |-> was.lecture,
                     watchTime |-> IF "$set.watchTime" \in mod
                                   THEN doc.completedLectures[i].watchTime
                                   ELSE was.watchTime,
                     completionPercentage |->
                         IF "$set.completionPercentage" \in mod
                         THEN doc.completedLectures[i].completionPercentage
                         ELSE was.completionPercentage]]
            ELSE stored.completedLectures
    IN  [status |-> Pick("status"), completedLectures |-> completedLectures,
         overallProgress |-> Pick("overallProgress"),
         lastAccessedLecture |-> Pick("lastAccessedLecture"),
         totalWatchTime |-> Pick("totalWatchTime"),
         completedAt |-> Pick("completedAt"),
         score |-> Pick("score"), review |-> Pick("review"),
         v |-> IF "$push" \in mod THEN stored.v + 1 ELSE stored.v]

(* ------------------------------------ POST /api/enrollments/:courseId *)

\* Course.findOne (the course is published), Enrollment.findOne, new
\* Enrollment(...)
Enroll_Check(r, student) ==
    /\ IsIdle(r)
    /\ IF student \in DOMAIN enrollments
       THEN Respond(r, "enroll", 400, "Already enrolled in this course")
       ELSE Begin(r, "enroll", "enroll:save", 0, [NoInput EXCEPT !.student = student],
                  NewEnrollment, {})
    /\ LectureUnchanged /\ EnrollmentUnchanged /\ UNCHANGED clock /\ AiLectureUnchanged /\ DemoUnchanged

\* a plausible slip: the index on (student, course) not declared unique
DuplicateKey_NotUnique(student) == FALSE

\* enrollmentSchema.index({ student: 1, course: 1 }, { unique: true }): an
\* insert for a pair that is stored already is refused
DuplicateKey(student) == student \in DOMAIN enrollments

\* await enrollment.save(): the insert, refused by the unique index on
\* (student, course) when the pair is stored already
Enroll_Save(r) ==
    /\ req[r].pc = "enroll:save"
    /\ LET student == req[r].in.student
       IN  IF DuplicateKey(student)
           THEN /\ UNCHANGED enrollments
                /\ Respond(r, "enroll", 500, "Server error during enrollment")
           ELSE /\ enrollments' = (student :> req[r].doc) @@ enrollments
                /\ Goto(r, "enroll:inc", req[r].doc, {})
    /\ LectureUnchanged /\ UNCHANGED <<enrollmentCount, courseRating, clock>> /\ AiLectureUnchanged /\ DemoUnchanged

\* Course.findByIdAndUpdate(courseId, { $inc: { enrollmentCount: 1 } })
Enroll_Inc(r) ==
    /\ req[r].pc = "enroll:inc"
    /\ enrollmentCount' = enrollmentCount + 1
    /\ Respond(r, "enroll", 201, "Successfully enrolled in course")
    /\ LectureUnchanged /\ UNCHANGED <<enrollments, courseRating, clock>> /\ AiLectureUnchanged /\ DemoUnchanged

(* ----------------------- PUT /api/enrollments/:enrollmentId/progress *)

\* validation and Enrollment.findOne({ _id, student, status: 'active' });
\* owner: the enrollment is the requesting student's
UpdateProgress_Find(r, student, owner, valid, lectureId, watchTime, completionPercentage) ==
    /\ IsIdle(r)
    /\ IF ~valid
       THEN Respond(r, "updateProgress", 400, "Validation errors")
       ELSE IF \/ student \notin DOMAIN enrollments
               \/ ~owner
               \/ enrollments[student].status # "active"
       THEN Respond(r, "updateProgress", 404, "Enrollment not found or not accessible")
       ELSE /\ enrollments[student].totalWatchTime + watchTime <= MaxTotalWatch
            /\ Begin(r, "updateProgress", "progress:populate", lectureId,
                     [NoInput EXCEPT !.student = student, !.watchTime = watchTime,
                                     !.completionPercentage = completionPercentage],
                     enrollments[student], {})
    /\ LectureUnchanged /\ EnrollmentUnchanged /\ UNCHANGED clock /\ AiLectureUnchanged /\ DemoUnchanged

\* a plausible slip: the membership check left out
LectureInCourse_Unchecked(lectureId) == TRUE

\* enrollment.course.lectures.includes(lectureId)
LectureInCourse(lectureId) ==
    \E i \in 1..Len(courseLectures) : courseLectures[i] = lectureId

\* .populate('course'), the check that the lecture is one of the course's,
\* and addCompletedLecture up to its save
UpdateProgress_Populate(r) ==
    /\ req[r].pc = "progress:populate"
    /\ IF ~LectureInCourse(req[r].lec)
       THEN /\ Respond(r, "updateProgress", 400, "Lecture does not belong to this course")
            /\ UNCHANGED clock
       ELSE LET s == AddCompletedLecture(req[r].doc, req[r].lec,
                         req[r].in.watchTime, req[r].in.completionPercentage,
                         Len(courseLectures), Now)
            IN  /\ "completedAt" \in s.mod => clock < MaxClock
                /\ clock' = IF "completedAt" \in s.mod THEN Now ELSE clock
                /\ Goto(r, "progress:save", s.doc, s.mod)
    /\ LectureUnchanged /\ EnrollmentUnchanged /\ AiLectureUnchanged /\ DemoUnchanged

\* return this.save(): validation, then the update; a validation error and
\* a version conflict are answered by the handler's catch
UpdateProgress_Save(r) ==
    /\ req[r].pc = "progress:save"
    /\ LET student == req[r].in.student
           stored == enrollments[student]
       IN  IF \/ ~ValidEnrollment(req[r].doc, req[r].mod)
              \/ VersionChecked(req[r].mod) /\ stored.v # req[r].doc.v
           THEN /\ UNCHANGED enrollments
                /\ Respond(r, "updateProgress", 500, "Server error updating progress")
           ELSE /\ enrollments' = [enrollments EXCEPT ![student] =
                      ApplyEnrollmentUpdate(stored, req[r].doc, req[r].mod, req[r].lec)]
                /\ Respond(r, "updateProgress", 200, "Progress updated successfully")
    /\ LectureUnchanged /\ UNCHANGED <<enrollmentCount, courseRating, clock>> /\ AiLectureUnchanged /\ DemoUnchanged

(* ------------------------- POST /api/enrollments/:enrollmentId/rating *)

\* a plausible slip: the check for an earlier rating left out
AlreadyRated_Never(enrollment) == FALSE

\* if (enrollment.rating.score)
AlreadyRated(enrollment) == enrollment.score # NoScore

\* validation, Enrollment.findOne({ _id, student }), the check for an earlier
\* rating and the assignment of enrollment.rating; owner: the enrollment is
\* the requesting student's
RateCourse_Find(r, student, owner, valid, score, review) ==
    /\ IsIdle(r)
    /\ IF ~valid
       THEN Respond(r, "rateCourse", 400, "Validation errors")
       ELSE IF student \notin DOMAIN enrollments \/ ~owner
       THEN Respond(r, "rateCourse", 404, "Enrollment not found or not accessible")
       ELSE IF AlreadyRated(enrollments[student])
       THEN Respond(r, "rateCourse", 400, "You have already rated this course")
       ELSE Begin(r, "rateCourse", "rate:save", 0,
                  [NoInput EXCEPT !.student = student],
                  [enrollments[student] EXCEPT
                      !.score = score,
                      !.review = IF Truthy(review) THEN review ELSE ""],
                  {"score", "review"})
    /\ LectureUnchanged /\ EnrollmentUnchanged /\ UNCHANGED clock /\ AiLectureUnchanged /\ DemoUnchanged

\* await enrollment.save()
RateCourse_Save(r) ==
    /\ req[r].pc = "rate:save"
    /\ LET student == req[r].in.student
       IN  enrollments' = [enrollments EXCEPT ![student] =
               ApplyEnrollmentUpdate(@, req[r].doc, req[r].mod, req[r].lec)]
    /\ Goto(r, "rate:findAll", req[r].doc, {})
    /\ LectureUnchanged /\ UNCHANGED <<enrollmentCount, courseRating, clock>> /\ AiLectureUnchanged /\ DemoUnchanged

\* allRatings.reduce((sum, e) => sum + e.rating.score, 0) over the students
\* of the set
RECURSIVE TotalRating(_)
TotalRating(students) ==
    IF students = {} THEN 0
    ELSE LET s == CHOOSE x \in students : TRUE
         IN  enrollments[s].score + TotalRating(students \ {s})

\* Enrollment.find({ course, 'rating.score': { $exists: true } }) and the
\* total and number of the scores found
RateCourse_FindAll(r) ==
    /\ req[r].pc = "rate:findAll"
    /\ LET allRatings == {s \in DOMAIN enrollments : enrollments[s].score # NoScore}
       IN  Goto(r, "rate:update",
                [total |-> TotalRating(allRatings), length |-> Cardinality(allRatings)],
                {})
    /\ LectureUnchanged /\ EnrollmentUnchanged /\ UNCHANGED clock /\ AiLectureUnchanged /\ DemoUnchanged

\* Math.round(total / length * 10) / 10, in tenths
RoundTenths(total, length) == (20 * total + length) \div (2 * length)

\* if (allRatings.length > 0) Course.findByIdAndUpdate(course._id, { ... })
\* and the response
RateCourse_UpdateCourse(r) ==
    /\ req[r].pc = "rate:update"
    /\ LET found == req[r].doc
       IN  courseRating' =
               IF found.length > 0
               THEN [average |-> RoundTenths(found.total, found.length),
                     count |-> found.length]
               ELSE courseRating
    /\ Respond(r, "rateCourse", 200, "Course rated successfully")
    /\ LectureUnchanged /\ UNCHANGED <<enrollments, enrollmentCount, clock>> /\ AiLectureUnchanged /\ DemoUnchanged

(* --------------------------------- DELETE /api/enrollments/:enrollmentId *)

\* Enrollment.findOne({ _id, student }), the check that the course is not
\* completed, enrollment.status = 'dropped'; owner: the enrollment is the
\* requesting student's
DropEnrollment_Find(r, student, owner) ==
    /\ IsIdle(r)
    /\ enrollmentCount + MaxOverdrawn > 0
    /\ IF student \notin DOMAIN enrollments \/ ~owner
       THEN Respond(r, "dropEnrollment", 404, "Enrollment not found or not accessible")
       ELSE IF enrollments[student].status = "completed"
       THEN Respond(r, "dropEnrollment", 400, "Cannot cancel completed course")
       ELSE LET s == SetPath(enrollments[student], {}, "status", "dropped")
            IN  Begin(r, "dropEnrollment", "drop:save", 0,
                      [NoInput EXCEPT !.student = student], s.doc, s.mod)
    /\ LectureUnchanged /\ EnrollmentUnchanged /\ UNCHANGED clock /\ AiLectureUnchanged /\ DemoUnchanged

\* await enrollment.save()
DropEnrollment_Save(r) ==
    /\ req[r].pc = "drop:save"
    /\ LET student == req[r].in.student
       IN  enrollments' = [enrollments EXCEPT ![student] =
               ApplyEnrollmentUpdate(@, req[r].doc, req[r].mod, req[r].lec)]
    /\ Goto(r, "drop:dec", req[r].doc, {})
    /\ LectureUnchanged /\ UNCHANGED <<enrollmentCount, courseRating, clock>> /\ AiLectureUnchanged /\ DemoUnchanged

\* Course.findByIdAndUpdate(enrollment.course, { $inc: { enrollmentCount: -1 } })
\* and the response
DropEnrollment_Dec(r) ==
    /\ req[r].pc = "drop:dec"
    /\ enrollmentCount' = enrollmentCount - 1
    /\ Respond(r, "dropEnrollment", 200, "Enrollment cancelled successfully")
    /\ LectureUnchanged /\ UNCHANGED <<enrollments, courseRating, clock>> /\ AiLectureUnchanged /\ DemoUnchanged

(* ------------------------------------------------------- specification *)

\* an empty store holding the one course, published and without lectures
Init ==
    /\ lectures = <<>>
    /\ nextLectureId = 1
    /\ courseLectures = <<>>
    /\ enrollmentCount = 0
    /\ courseRating = [average |-> 0, count |-> 0]
    /\ aiLecture = NewAiLecture
    /\ demo = NewDemo
    /\ enrollments = <<>>
    /\ clock = 0
    /\ req = [r \in Slots |-> Idle("none", NoResp)]

\* A scenario bounds what the requests of a specification carry: the ids the
\* store hands out (1..maxId), who sends the requests, the contentType,
\* textContent and text file of a create or update, and whether the professor
\* numbers the lectures in the order of their creation (order 1 for the
\* first lecture created, 2 for the second, ...) or gives any order.
Scenario(maxId, actors, cts, texts, files, numbered) ==
    [maxId |-> maxId, actors |-> actors, cts |-> cts, texts |-> texts,
     files |-> files, numbered |-> numbered]

\* Bodies of create and update requests.  A request that fails validation or
\* comes from an actor the handler turns away is answered before the handler
\* reads the rest of its body, so one body stands for all of them.
LectureInputs(sc) ==
    {in \in [actor : sc.actors, valid : BOOLEAN, order : Orders,
             contentType : sc.cts, textContent : sc.texts, file : sc.files] :
        (~in.valid \/ in.actor = "other") =>
            /\ in.order = 1
            /\ in.contentType = "text"
            /\ in.textContent = Undefined
            /\ in.file = Undefined}

\* Bodies of create requests: in a numbered scenario the order is not the
\* sender's choice.
CreateInputs(sc) ==
    {in \in LectureInputs(sc) : sc.numbered => in.order = 1}

\* the order a create request carries: in a numbered scenario the number of
\* lectures created so far, plus one
CreateOrder(sc, in) ==
    IF sc.numbered /\ in.valid /\ in.actor # "other"
    THEN nextLectureId ELSE in.order

\* create and delete of lectures in slot r
CourseStep(r, sc) ==
    \/ \E in \in CreateInputs(sc) :
          CreateLecture_Check(r, sc.maxId, in.actor, in.valid, CreateOrder(sc, in),
                              in.contentType, in.textContent, in.file)
    \/ CreateLecture_Save(r)
    \/ CreateLecture_Push(r)
    \/ \E lec \in 1..sc.maxId, actor \in sc.actors : DeleteLecture_Find(r, lec, actor)
    \/ DeleteLecture_Pull(r)
    \/ DeleteLecture_Delete(r)

\* update of lectures in slot r
UpdateStep(r, sc) ==
    \/ \E in \in LectureInputs(sc), lec \in 1..sc.maxId :
          UpdateLecture_Find(r, lec, in.actor, in.valid, in.order,
                             in.contentType, in.textContent, in.file)
    \/ UpdateLecture_CheckOrder(r)
    \/ UpdateLecture_Save(r)

\* create, update and delete of lectures in slot r
CrudStep(r, sc) == CourseStep(r, sc) \/ UpdateStep(r, sc)

\* Bodies of progress requests; as for lectures, one body stands for all
\* that fail validation or come from another student.
ProgressInputs(watchTimes, percentages) ==
    {in \in [owner : BOOLEAN, valid : BOOLEAN, lectureId : LectureIds,
             watchTime : watchTimes, completionPercentage : percentages] :
        (~in.valid \/ ~in.owner) =>
            /\ in.lectureId = 1
            /\ \A w \in watchTimes : in.watchTime <= w
            /\ \A c \in percentages : in.completionPercentage <= c}

\* enrolling in slot r
EnrollStep(r) ==
    \/ \E student \in Students : Enroll_Check(r, student)
    \/ Enroll_Save(r)
    \/ Enroll_Inc(r)

\* progress requests in slot r
ProgressStep(r, watchTimes, percentages) ==
    \/ \E student \in Students, in \in ProgressInputs(watchTimes, percentages) :
          UpdateProgress_Find(r, student, in.owner, in.valid, in.lectureId,
                              in.watchTime, in.completionPercentage)
    \/ UpdateProgress_Populate(r)
    \/ UpdateProgress_Save(r)

\* publishing and AI processing of lectures in slot r
ProcessingStep(r, sc) ==
    \/ \E accepted \in BOOLEAN :
          \/ CreateLecture_HandOff(r, accepted)
          \/ UpdateLecture_HandOff(r, accepted)
          \/ ReprocessLecture_HandOff(r, accepted)
    \/ CreateLecture_SaveStatus(r)
    \/ \E lec \in 1..sc.maxId, actor \in sc.actors :
          \/ ProcessingStatus(r, lec, actor)
          \/ ReprocessLecture_Check(r, lec, actor)
          \/ \E valid \in BOOLEAN, isPublished \in BOOLEAN :
                PublishLecture_Check(r, lec, actor, valid, isPublished)
    \/ PublishLecture_Save(r)
    \/ ReprocessLecture_Save(r)
    \/ ReprocessLecture_SaveStatus(r)

GenerationStep(sc) ==
    \E lec \in 1..sc.maxId, success \in BOOLEAN : GenerationReport(lec, success)

\* One lecture, every actor and every body.
OneLecture == Scenario(1, Actors, ContentTypes, Texts, {Undefined, "a"}, FALSE)

\* The lecture routes on one lecture, one request at a time.
Next ==
    \/ \E r \in SeqSlots : CrudStep(r, OneLecture) \/ ProcessingStep(r, OneLecture)
    \/ GenerationStep(OneLecture)

Spec == Init /\ [][Next]_vars

\* Text lectures of the course's professor.
TextLectures ==
    Scenario(MaxLectures, {"owner"}, {"text"}, {Undefined}, {Undefined}, FALSE)

\* Create, update and delete of the course's lectures, requests overlapping.
OrderNext == \E r \in Slots : CrudStep(r, TextLectures)

OrderSpec == Init /\ [][OrderNext]_vars

\* Text lectures that the course's professor numbers as they are created.
NumberedLectures ==
    Scenario(MaxLectures, {"owner"}, {"text"}, {Undefined}, {Undefined}, TRUE)

\* watchTime and completionPercentage of the progress requests
WatchTimes == 0..MaxWatch
Percentages == {50, 100}

\* Enrolling and progress while lectures are created and deleted, one request
\* at a time.
ProgressSeqNext ==
    \E r \in SeqSlots :
        \/ CourseStep(r, NumberedLectures)
        \/ EnrollStep(r)
        \/ ProgressStep(r, WatchTimes, Percentages)

ProgressSeqSpec == Init /\ [][ProgressSeqNext]_vars

\* The same, requests overlapping.
ProgressNext ==
    \E r \in Slots :
        \/ CourseStep(r, NumberedLectures)
        \/ EnrollStep(r)
        \/ ProgressStep(r, {1}, {100})

ProgressSpec == Init /\ [][ProgressNext]_vars

\* the students who enrol in the course and rate it
Raters == {"s1", "s2"}

\* the scores and reviews of the rating requests
Scores == {2, 5}
Reviews == {Undefined, "good"}

\* Bodies of rating requests; one body stands for all that fail validation
\* or come from another student.
RateInputs ==
    {in \in [owner : BOOLEAN, valid : BOOLEAN, score : Scores, review : Reviews] :
        (~in.valid \/ ~in.owner) =>
            /\ \A x \in Scores : in.score <= x
            /\ in.review = Undefined}

\* rating requests in slot r
RateStep(r) ==
    \/ \E student \in Raters, in \in RateInputs :
          RateCourse_Find(r, student, in.owner, in.valid, in.score, in.review)
    \/ RateCourse_Save(r)
    \/ RateCourse_FindAll(r)
    \/ RateCourse_UpdateCourse(r)

\* Students enrol and rate the course, requests overlapping.
RatingNext ==
    \E r \in Slots :
        \/ \E student \in Raters : Enroll_Check(r, student)
        \/ Enroll_Save(r)
        \/ Enroll_Inc(r)
        \/ RateStep(r)

RatingSpec == Init /\ [][RatingNext]_vars

\* a rating request is in its handler
Rating(r) == req[r].pc \in {"rate:save", "rate:findAll", "rate:update"}

\* a rating request for an enrollment that no other request is rating
RateCourse_Alone(r, student, in) ==
    /\ RateCourse_Find(r, student, in.owner, in.valid, in.score, in.review)
    /\ \A q \in Slots \ {r} : Rating(q) => req[q].in.student # student

\* Students enrol and rate the course, the rating requests that overlap
\* being those of different enrollments.
RatingDistinctNext ==
    \E r \in Slots :
        \/ \E student \in Raters : Enroll_Check(r, student)
        \/ Enroll_Save(r)
        \/ Enroll_Inc(r)
        \/ \E student \in Raters, in \in RateInputs : RateCourse_Alone(r, student, in)
        \/ RateCourse_Save(r)
        \/ RateCourse_FindAll(r)
        \/ RateCourse_UpdateCourse(r)

RatingDistinctSpec == Init /\ [][RatingDistinctNext]_vars

\* the job ids the generation service answers with; it may answer without one
JobIds == {Undefined, "job1"}

\* the generate-ai route in slot r
GenerateAiStep(r) ==
    \/ \E lec \in AiLectureIds, actor \in Actors, sourceText \in Texts :
          GenerateAi_Find(r, lec, actor, sourceText)
    \/ GenerateAi_Save(r)
    \/ \E accepted \in BOOLEAN, jobId \in JobIds : GenerateAi_HandOff(r, accepted, jobId)
    \/ GenerateAi_SaveStatus(r)

\* the ai-status route in slot r
AiStatusStep(r) ==
    \/ \E lec \in AiLectureIds, actor \in Actors : AiStatus_Find(r, lec, actor)
    \/ \E reachable \in BOOLEAN, mlStatus \in MlStatuses : AiStatus_Poll(r, reachable, mlStatus)
    \/ AiStatus_Save(r)

\* Generation and status polls of a lecture, one request at a time.
AiNext == \E r \in SeqSlots : GenerateAiStep(r) \/ AiStatusStep(r)

AiSpec == Init /\ [][AiNext]_vars

\* One ai-generated lecture of the course's professor, the requests with
\* source text or without.
AiLectures ==
    Scenario(1, {"owner"}, {"ai-generated"}, {Undefined, "a"}, {Undefined}, FALSE)

\* The requests that hand a lecture to the generation service, one at a time.
HandOffNext ==
    \E r \in SeqSlots :
        \/ CrudStep(r, AiLectures)
        \/ ProcessingStep(r, AiLectures)
        \/ GenerateAiStep(r)

HandOffSpec == Init /\ [][HandOffNext]_vars

\* Text lectures of the course's professor, numbered as they are created, up
\* to MaxCourseLectures of them.
CourseLectures ==
    Scenario(MaxCourseLectures, {"owner"}, {"text"}, {Undefined}, {Undefined}, TRUE)

\* a create request for a course that nobody is enrolled in yet
CreateLecture_BeforeEnrolling(r, sc, in) ==
    /\ CreateLecture_Check(r, sc.maxId, in.actor, in.valid, CreateOrder(sc, in),
                           in.contentType, in.textContent, in.file)
    /\ enrollments = <<>>

\* the student's progress requests that complete a lecture
CompletionStep(r) ==
    \/ \E student \in Students, lectureId \in 1..MaxCourseLectures :
          UpdateProgress_Find(r, student, TRUE, TRUE, lectureId, 0, 100)
    \/ UpdateProgress_Populate(r)
    \/ UpdateProgress_Save(r)

\* The course gets its lectures, then the student enrols and completes them,
\* one request at a time.
CompletionNext ==
    \E r \in SeqSlots :
        \/ \E in \in CreateInputs(CourseLectures) :
              CreateLecture_BeforeEnrolling(r, CourseLectures, in)
        \/ CreateLecture_Save(r)
        \/ CreateLecture_Push(r)
        \/ EnrollStep(r)
        \/ CompletionStep(r)

CompletionSpec == Init /\ [][CompletionNext]_vars

\* cancelling in slot r
DropStep(r) ==
    \/ \E student \in Students, owner \in BOOLEAN : DropEnrollment_Find(r, student, owner)
    \/ DropEnrollment_Save(r)
    \/ DropEnrollment_Dec(r)

\* One text lecture of the course's professor.
SingleLecture ==
    Scenario(1, {"owner"}, {"text"}, {Undefined}, {Undefined}, TRUE)

\* the student's rating requests, all with one body
RateOnceStep(r) ==
    \/ \E student \in Students : RateCourse_Find(r, student, TRUE, TRUE, 5, Undefined)
    \/ RateCourse_Save(r)
    \/ RateCourse_FindAll(r)
    \/ RateCourse_UpdateCourse(r)

\* The course gets its lecture, then the student enrols, completes the
\* lecture, rates the course and cancels, requests overlapping.
StatusNext ==
    \E r \in Slots :
        \/ \E in \in CreateInputs(SingleLecture) :
              CreateLecture_BeforeEnrolling(r, SingleLecture, in)
        \/ CreateLecture_Save(r)
        \/ CreateLecture_Push(r)
        \/ EnrollStep(r)
        \/ ProgressStep(r, {1}, {100})
        \/ RateOnceStep(r)
        \/ DropStep(r)

StatusSpec == Init /\ [][StatusNext]_vars

\* Three text lectures of the course's professor, numbered as they are
\* created.
ThreeLectures ==
    Scenario(3, {"owner"}, {"text"}, {Undefined}, {Undefined}, TRUE)

\* Lectures are created and deleted while the student completes them, one
\* request at a time.
RemovalNext ==
    \E r \in SeqSlots :
        \/ CourseStep(r, ThreeLectures)
        \/ EnrollStep(r)
        \/ \E student \in Students, lectureId \in 1..ThreeLectures.maxId :
              UpdateProgress_Find(r, student, TRUE, TRUE, lectureId, 0, 100)
        \/ UpdateProgress_Populate(r)
        \/ UpdateProgress_Save(r)

RemovalSpec == Init /\ [][RemovalNext]_vars

\* the students who enrol in the course and cancel
Enrollees == {"s1", "s2", "s3"}

\* Students enrol in the course and cancel, one request at a time.
EnrollDropNext ==
    \E r \in SeqSlots :
        \/ \E student \in Enrollees : Enroll_Check(r, student)
        \/ Enroll_Save(r)
        \/ Enroll_Inc(r)
        \/ \E student \in Enrollees, owner \in BOOLEAN :
              DropEnrollment_Find(r, student, owner)
        \/ DropEnrollment_Save(r)
        \/ DropEnrollment_Dec(r)

EnrollDropSpec == Init /\ [][EnrollDropNext]_vars

\* Create and delete of the course's text lectures, one request at a time,
\* the store failing at times when a lecture is added to the course.
CreateFailureNext ==
    \E r \in SeqSlots :
        \/ CourseStep(r, TextLectures)
        \/ CreateLecture_PushFails(r)

CreateFailureSpec == Init /\ [][CreateFailureNext]_vars

\* the requests of the demo server and its timers
DemoStep ==
    \/ \E title \in {Undefined, "t"}, content \in {Undefined, "c"} : DemoCreate(title, content)
    \/ \E id \in DemoIds : DemoTimer(id)
    \/ \E id \in {SampleLecture.id} \cup DemoIds : DemoDelete(id)

\* The demo server.
DemoNext == DemoStep

DemoSpec == Init /\ [][DemoNext]_vars

\* The demo server, every timer that was set firing in the end.
DemoFairSpec == DemoSpec /\ \A id \in DemoIds : WF_vars(DemoTimer(id))

\* The requests that start a generation - on the demo server and by the
\* generate-ai route - with the timers and the status polls that end it.
AsyncNext ==
    \/ DemoStep
    \/ \E r \in SeqSlots : GenerateAiStep(r) \/ AiStatusStep(r)

AsyncSpec == Init /\ [][AsyncNext]_vars

(* ================================================================ claims *)

\* the responses the handlers give, by the kind of error they stand for
PreconditionFailed ==
    Resp(400, "Cannot publish AI-generated lecture until processing is complete")
InvalidReference == Resp(400, "Lecture does not belong to this course")
NotFound == Resp(404, "Enrollment not found or not accessible")
ProgressUpdated == Resp(200, "Progress updated successfully")

\* C1: every published lecture is either not ai-generated or has processing
\* status completed.
C1_PublishedImpliesProcessed ==
    \A lec \in DOMAIN lectures :
        lectures[lec].isPublished =>
            \/ lectures[lec].contentType # "ai-generated"
            \/ lectures[lec].status = "completed"

\* C2: a publish request (isPublished = true) on an ai-generated lecture
\* whose status is pending, processing or failed ends in the same step with
\* the PreconditionFailed response (for a sender that may publish the
\* lecture) and leaves the stored lecture, isPublished and publishedAt
\* included, as it was.
C2_PublishRejectedUntilProcessed ==
    [][\A r \in Slots, lec \in LectureIds, actor \in Actors :
          ( /\ lec \in DOMAIN lectures
            /\ lectures[lec].contentType = "ai-generated"
            /\ lectures[lec].status \in {"pending", "processing", "failed"}
            /\ PublishLecture_Check(r, lec, actor, TRUE, TRUE) )
          => /\ req'[r].pc = "idle"
             /\ req'[r].res.status >= 400
             /\ ~AccessDenied(actor) => req'[r].res = PreconditionFailed
             /\ lectures'[lec].isPublished = lectures[lec].isPublished
             /\ lectures'[lec].publishedAt = lectures[lec].publishedAt
             /\ lectures' = lectures]_vars

\* C2 witness: the publish request on a lecture whose hand-off failed has
\* been answered with PreconditionFailed and the lecture is unpublished.
C2_Witness ==
    \E r \in Slots, lec \in DOMAIN lectures :
        /\ req[r].pc = "idle" /\ req[r].op = "publishLecture"
        /\ req[r].res = PreconditionFailed
        /\ lectures[lec].contentType = "ai-generated"
        /\ lectures[lec].status = "failed"
        /\ ~lectures[lec].isPublished /\ lectures[lec].publishedAt = NoDate

\* C3: no two lectures of the course have the same order.
C3_OrdersDistinct ==
    \A l1, l2 \in DOMAIN lectures :
        l1 # l2 => lectures[l1].order # lectures[l2].order

(* ---------------------------------------------- progress of enrollments *)

\* the completion records of a document that are of the lecture
RecordsOf(doc, lectureId) ==
    {i \in 1..Len(doc.completedLectures) :
        doc.completedLectures[i].lecture = lectureId}

HasRecord(doc, lectureId) == RecordsOf(doc, lectureId) # {}

\* the integer nearest to 100 * n / d, halves upwards
NearestPercent(n, d) ==
    CHOOSE k \in 0..(100 * n + 1) :
        2 * k * d - d <= 200 * n /\ 200 * n < 2 * k * d + d

\* the step in which the progress request of slot r is answered with success
SavesProgress(r) ==
    /\ req[r].op = "updateProgress" /\ req[r].pc = "progress:save"
    /\ req'[r].pc = "idle" /\ req'[r].res = ProgressUpdated

\* C4 as stated: between requests, overallProgress of every enrollment is
\* round(100 * |completedLectures| / totalLectures) whenever the course has
\* lectures.
C4_ProgressMatchesCourse ==
    (\A r \in Slots : IsIdle(r)) =>
        \A s \in DOMAIN enrollments :
            Len(courseLectures) > 0 =>
                enrollments[s].overallProgress =
                    NearestPercent(Len(enrollments[s].completedLectures),
                                   Len(courseLectures))

\* C4 amended: in a sequence of operations, right after every progress
\* request answered with success, overallProgress of its enrollment is
\* round(100 * |completedLectures| / totalLectures), totalLectures > 0 the
\* number of the course's lectures at that request; no other operation
\* changes overallProgress.
C4_ProgressMatchesAfterCompletion ==
    [][/\ \A r \in Slots :
             SavesProgress(r) =>
                 LET after == enrollments'[req[r].in.student]
                 IN  /\ Len(courseLectures) > 0
                     /\ after.overallProgress =
                            NearestPercent(Len(after.completedLectures),
                                           Len(courseLectures))
       /\ \A s \in DOMAIN enrollments :
             enrollments'[s].overallProgress # enrollments[s].overallProgress
             => \E r \in Slots : SavesProgress(r) /\ req[r].in.student = s]_vars

\* C4 witness: a progress request on a course of two lectures has been
\* answered with success and left one record and the progress 50.
C4_Witness ==
    \E r \in Slots, s \in DOMAIN enrollments :
        /\ IsIdle(r) /\ req[r].res = ProgressUpdated
        /\ Len(courseLectures) = 2
        /\ Len(enrollments[s].completedLectures) = 1
        /\ enrollments[s].overallProgress = 50

\* C5: overallProgress is an integer in 0..100 wherever it appears: in the
\* stored enrollments and in the value a progress request has computed and
\* is about to save.
C5_ProgressWithinRange ==
    /\ \A s \in DOMAIN enrollments : enrollments[s].overallProgress \in 0..100
    /\ \A r \in Slots :
          (req[r].op = "updateProgress" /\ req[r].pc = "progress:save") =>
              req[r].doc.overallProgress \in 0..100

\* C6: once an enrollment has been completed and its completedAt set, no
\* step sets completedAt again.
C6_CompletedOnce ==
    [][\A s \in DOMAIN enrollments :
          enrollments[s].completedAt # NoDate =>
              enrollments'[s].completedAt = enrollments[s].completedAt]_vars

\* C7: when a progress request for a lecture is answered with success and
\* the stored enrollment holds a record of another lecture that the request
\* did not read (the other request finished after this request's read), then
\* after its save both records are stored, totalWatchTime has grown by this
\* request's watchTime too, and overallProgress is computed from all stored
\* records.
C7_NoLostUpdate ==
    [][\A r \in Slots :
          LET s == req[r].in.student
              before == enrollments[s]
              after == enrollments'[s]
          IN  ( /\ SavesProgress(r)
                /\ \E other \in LectureIds \ {req[r].lec} :
                      HasRecord(before, other) /\ ~HasRecord(req[r].doc, other) )
              => /\ HasRecord(after, req[r].lec)
                 /\ \A other \in LectureIds :
                       HasRecord(before, other) => HasRecord(after, other)
                 /\ after.totalWatchTime =
                        before.totalWatchTime + req[r].in.watchTime
                 /\ Len(courseLectures) > 0 =>
                        after.overallProgress =
                            NearestPercent(Len(after.completedLectures),
                                           Len(courseLectures))]_vars

C9_RecordUpdatedInPlace ==
    [][\A s \in DOMAIN enrollments :
          LET before == enrollments[s].completedLectures
              after == enrollments'[s].completedLectures
          IN  /\ \A i, j \in 1..Len(after) :
                    after[i].lecture = after[j].lecture => i = j
              /\ Len(after) >= Len(before)
              /\ \A i \in 1..Len(before) :
                    /\ after[i].lecture = before[i].lecture
                    /\ after[i].watchTime >= before[i].watchTime
                    /\ after[i].completionPercentage >= before[i].completionPercentage
              /\ \A r \in Slots :
                    \A i \in RecordsOf(enrollments[s], req[r].lec) :
                    (SavesProgress(r) /\ req[r].in.student = s)
                    => /\ Len(after) = Len(before)
                       /\ after[i].watchTime >= req[r].in.watchTime
                       /\ after[i].watchTime \in
                              {before[i].watchTime, req[r].in.watchTime}
                       /\ after[i].completionPercentage >=
                              req[r].in.completionPercentage
                       /\ after[i].completionPercentage \in
                              {before[i].completionPercentage,
                               req[r].in.completionPercentage}]_vars

\* C10: a progress request whose lecture is not one of the course's is
\* answered with InvalidReference and leaves the enrollments as they were.
C10_ForeignLectureRejected ==
    [][\A r \in Slots :
          ( /\ req[r].op = "updateProgress" /\ req[r].pc = "progress:populate"
            /\ \A i \in 1..Len(courseLectures) : courseLectures[i] # req[r].lec
            /\ req'[r] # req[r] )
          => /\ req'[r].pc = "idle"
             /\ req'[r].res = InvalidReference
             /\ enrollments' = enrollments]_vars

\* C10 witness: a progress request for a lecture outside the course has been
\* answered with InvalidReference; the enrollment is as enrolling left it.
C10_Witness ==
    \E r \in Slots, s \in DOMAIN enrollments :
        /\ IsIdle(r) /\ req[r].op = "updateProgress"
        /\ req[r].res = InvalidReference
        /\ enrollments[s] = NewEnrollment

\* the response of the rating route to a second rating
AlreadyRatedError == Resp(400, "You have already rated this course")

\* the enrollments that carry a score
Rated == {s \in DOMAIN enrollments : enrollments[s].score # NoScore}

C12_RatingMatchesEnrollments ==
    (Rated # {} /\ \A r \in Slots : ~Rating(r)) =>
        /\ courseRating.count = Cardinality(Rated)
        /\ courseRating.average = RoundTenths(TotalRating(Rated), Cardinality(Rated))

\* the request in slot r is past a hand-off that failed
FailedHandOff(r) ==
    \/ req[r].pc \in {"create:saveStatus", "reprocess:saveStatus"}
          /\ req[r].doc.status = "failed"
    \/ req[r].pc = "update:save" /\ "status" \in req[r].mod
          /\ req[r].doc.status = "failed"
    \/ req[r].pc = "generate:saveFailed"

\* the request in slot r is at its hand-off
AtHandOff(r) ==
    req[r].pc \in {"create:handoff", "update:handoff", "reprocess:handoff",
                   "generate:handOff"}

\* the status codes of a request that succeeded
Success == {200, 201, 202}

\* the response of the generate-ai route when the service cannot be reached
UpstreamUnavailable ==
    Resp(500, "AI lecture generation service is currently unavailable. Please try again later.")

\* the lecture of the request in slot r is stored as failed, with a
\* non-empty errorMessage
StoredFailed(r) ==
    /\ req[r].lec \in DOMAIN lectures'
    /\ lectures'[req[r].lec].status = "failed"
    /\ Truthy(lectures'[req[r].lec].errorMessage)

\* C13 as stated: a request goes on after its hand-off, and after a hand-off
\* that failed its next step is its response, which is a success; the lecture
\* is then stored as failed with a non-empty errorMessage.
C13_HandOffFailureNotPropagated ==
    [][\A r \in SeqSlots :
          /\ AtHandOff(r) => ~IsIdle(r)'
          /\ FailedHandOff(r) =>
                /\ IsIdle(r)'
                /\ req'[r].res.status \in Success
                /\ StoredFailed(r)]_vars

\* C13, amended: that holds of create, update and reprocess requests; a
\* generate-ai request whose hand-off failed stores processingStatus failed
\* with an entry in the processing log and is answered 500.  In both cases
\* the response is the request's next step: the hand-off is not repeated.
C13_HandOffFailureRecorded ==
    [][\A r \in SeqSlots :
          /\ AtHandOff(r) => ~IsIdle(r)'
          /\ FailedHandOff(r) =>
                /\ IsIdle(r)'
                /\ IF req[r].op = "generateAi"
                   THEN /\ req'[r].res = UpstreamUnavailable
                        /\ aiLecture'.processingStatus = "failed"
                        /\ aiLecture'.processingLog =
                              Append(aiLecture.processingLog, "Processing failed: timeout")
                   ELSE /\ req'[r].res.status \in Success
                        /\ StoredFailed(r)]_vars

\* a create whose hand-off failed was answered 201 and left the lecture
\* failed
C13_Witness ==
    \E r \in SeqSlots :
        /\ IsIdle(r) /\ req[r].op = "createLecture" /\ req[r].res.status = 201
        /\ 1 \in DOMAIN lectures
        /\ lectures[1].status = "failed"
        /\ lectures[1].errorMessage = "Failed to start AI processing"

\* the changes of the processing status along the lifecycle
Lifecycle ==
    {<<"pending", "processing">>, <<"pending", "failed">>,
     <<"processing", "completed">>, <<"processing", "failed">>}

\* the stored status of lecture lec goes back to pending by the save of a
\* reprocess request on a failed lecture or of an update request
ResetToPending(lec) ==
    /\ lectures'[lec].status = "pending"
    /\ \E r \in SeqSlots :
          /\ req[r].lec = lec
          /\ \/ req[r].pc = "reprocess:save" /\ lectures[lec].status = "failed"
             \/ req[r].pc = "update:save"

\* C14: the stored processing status of an ai-generated lecture changes only
\* along the lifecycle or by a reset to pending, and a reprocess request for
\* a lecture whose status is not failed is answered without changing
\* anything.
C14_StatusLifecycle ==
    [][/\ \A lec \in DOMAIN lectures \cap DOMAIN lectures' :
             (/\ lectures[lec].contentType = "ai-generated"
              /\ lectures'[lec].contentType = "ai-generated"
              /\ lectures'[lec].status # lectures[lec].status)
             => \/ <<lectures[lec].status, lectures'[lec].status>> \in Lifecycle
                \/ ResetToPending(lec)
       /\ \A r \in SeqSlots :
             (/\ IsIdle(r) /\ req'[r] # req[r] /\ req'[r].op = "reprocessLecture"
              /\ 1 \in DOMAIN lectures
              /\ lectures[1].status # "failed")
             => IsIdle(r)' /\ UNCHANGED lectures]_vars

\* C15: the first save of a reprocess request for a failed lecture stores
\* status pending with the errorMessage cleared and the media references
\* emptied, and the request goes on to the hand-off; the save after an
\* accepted hand-off stores status processing, the errorMessage still
\* cleared.
C15_ReprocessResetsThenHandsOff ==
    [][\A r \in SeqSlots :
          LET lec == req[r].lec
          IN  /\ (/\ req[r].pc = "reprocess:save"
                  /\ lec \in DOMAIN lectures
                  /\ lectures[lec].status = "failed")
                 => /\ lectures'[lec].status = "pending"
                    /\ ~Truthy(lectures'[lec].errorMessage)
                    /\ lectures'[lec].media = "none"
                    /\ req'[r].pc = "reprocess:handoff"
              /\ (/\ req[r].pc = "reprocess:saveStatus"
                  /\ req[r].doc.status = "processing"
                  /\ lec \in DOMAIN lectures)
                 => /\ lectures'[lec].status = "processing"
                    /\ ~Truthy(lectures'[lec].errorMessage)
                    /\ req'[r].res = Resp(200, "AI processing restarted successfully")]_vars

\* a reprocess request for a failed lecture is about to save its reset
C15_Witness ==
    \E r \in SeqSlots :
        /\ req[r].pc = "reprocess:save"
        /\ req[r].lec \in DOMAIN lectures
        /\ lectures[req[r].lec].status = "failed"
        /\ Truthy(lectures[req[r].lec].errorMessage)

\* C16: the save of a status poll that found the job of a processing
\* lecture completed stores status completed, the media references the
\* service returned, and processedAt.
C16_PollCompletes ==
    [][\A r \in SeqSlots :
          (/\ req[r].pc = "status:save"
           /\ aiLecture.processingStatus = "processing"
           /\ req[r].doc.processingStatus = "completed")
          => /\ aiLecture'.processingStatus = "completed"
             /\ aiLecture'.video = req[r].doc.video
             /\ aiLecture'.processedAt # NoDate]_vars

\* the longer of two logs begins with the shorter
IsPrefix(s, t) ==
    /\ Len(s) <= Len(t)
    /\ \A i \in 1..Len(s) : s[i] = t[i]

\* C17: the processing log only grows at its end - no step removes or
\* replaces an entry - and a step that changes the processing status appends
\* one entry.
C17_LogAppendOnly ==
    [][/\ IsPrefix(aiLecture.processingLog, aiLecture'.processingLog)
       /\ aiLecture'.processingStatus # aiLecture.processingStatus
             => Len(aiLecture'.processingLog) = Len(aiLecture.processingLog) + 1]_vars

\* the lectures the enrollment has a completion record of
Completed(doc) ==
    {doc.completedLectures[i].lecture : i \in 1..Len(doc.completedLectures)}

\* C18: between requests, with N >= 1 lectures in the course and k of them
\* completed by the student, overallProgress is round(100 * k / N); below 100
\* the enrollment is active and has no completedAt, at 100 it is completed
\* and has one.
C18_ProgressAfterCompletions ==
    \A s \in DOMAIN enrollments :
        LET doc == enrollments[s]
            N == Len(courseLectures)
            k == Cardinality(Completed(doc))
        IN  (N >= 1 /\ \A r \in SeqSlots : IsIdle(r)) =>
                /\ doc.overallProgress = NearestPercent(k, N)
                /\ doc.overallProgress < 100 =>
                      doc.status = "active" /\ doc.completedAt = NoDate
                /\ doc.overallProgress = 100 =>
                      doc.status = "completed" /\ doc.completedAt # NoDate

\* all of four lectures completed: the enrollment is completed at 100
C18_Witness ==
    /\ Len(courseLectures) = 4
    /\ \E s \in DOMAIN enrollments :
          /\ Cardinality(Completed(enrollments[s])) = 4
          /\ enrollments[s].overallProgress = 100
          /\ enrollments[s].status = "completed"
          /\ enrollments[s].completedAt # NoDate

\* the response of the enroll route for a pair that is enrolled
AlreadyEnrolled == Resp(400, "Already enrolled in this course")

\* the enroll requests whose insert was accepted and whose increment of
\* enrollmentCount is still to come
Inserted == {r \in Slots : req[r].pc = "enroll:inc"}

C20_NeverReactivated ==
    [][\A s \in DOMAIN enrollments :
          enrollments[s].status \in {"completed", "dropped", "suspended"}
          => enrollments'[s].status # "active"]_vars

\* a rating request that read the enrollment as active is about to save
\* while the enrollment is stored as completed
C20_Witness ==
    \E r \in Slots :
        /\ req[r].pc = "rate:save"
        /\ req[r].doc.status = "active"
        /\ enrollments[req[r].in.student].status = "completed"

\* the ids listed in course.lectures
Listed == {courseLectures[i] : i \in 1..Len(courseLectures)}

\* C21: between requests, the lecture documents of the course are exactly
\* the lectures listed in course.lectures.
C21_NoPartialCreate ==
    (\A r \in Slots : IsIdle(r)) => DOMAIN lectures = Listed

\* the lecture with this id is in the demo server's array, with this status
DemoStatus(d, id, status) ==
    \E i \in 1..Len(d.lectures) :
        d.lectures[i].id = id /\ d.lectures[i].status = status

\* C22: a create request of the demo server is answered with the lecture in
\* status processing, and a lecture of the demo server becomes completed only
\* in the step of its timer; the lecture of the generate-ai route becomes
\* completed only in the save of a status poll, and a generate-ai request
\* whose job was accepted is answered 202 with the lecture stored as
\* processing.
C22_GenerationNotAwaited ==
    [][/\ \A id \in DemoIds :
             /\ (demo.nextId = id /\ demo'.nextId = id + 1)
                   => /\ DemoStatus(demo', id, "processing")
                      /\ demo'.res = Resp(201, "processing")
             /\ (DemoStatus(demo', id, "completed") /\ ~DemoStatus(demo, id, "completed"))
                   => (id < demo.nextId /\ id \in demo.timers /\ id \notin demo'.timers)
       /\ (aiLecture'.processingStatus = "completed"
              /\ aiLecture.processingStatus # "completed")
             => \E r \in SeqSlots : req[r].pc = "status:save"
       /\ \A r \in SeqSlots :
             /\ (req[r].pc = "generate:saveStarted" /\ req'[r] # req[r])
                   => /\ req'[r].res = Resp(202, "AI lecture generation started")
                      /\ aiLecture'.processingStatus = "processing"]_vars

\* the lecture of an answered create request is still processing, its timer
\* not fired, while a generate-ai request was answered 202
C22_Witness ==
    /\ demo.res = Resp(201, "processing")
    /\ DemoStatus(demo, 1, "processing") /\ 1 \in demo.timers
    /\ \E r \in SeqSlots :
          /\ IsIdle(r) /\ req[r].res = Resp(202, "AI lecture generation started")
          /\ aiLecture.processingStatus = "processing"

\* the statuses a lecture is stored with once its hand-off was attempted
HandedOff == {"processing", "failed"}

\* the document an update request is about to save carries ai-generated
\* content that the stored lecture does not have: another content type, or
\* another text
ChangesToAi(r) ==
    /\ req[r].op = "updateLecture" /\ req[r].pc = "update:save"
    /\ req[r].lec \in DOMAIN lectures
    /\ req[r].doc.contentType = "ai-generated"
    /\ \/ lectures[req[r].lec].contentType # "ai-generated"
       \/ lectures[req[r].lec].textContent # req[r].doc.textContent

\* C23: a create request with ai-generated content and a non-empty text, and
\* an update request that changes the content type to ai-generated or brings
\* another ai-generated text, end answered as a success with the lecture
\* stored as processing or failed, never pending; the update has cleared the
\* lecture's media.
C23_AiContentHandedOff ==
    [][\A r \in SeqSlots :
          /\ (/\ req[r].op = "createLecture" /\ ~IsIdle(r)
              /\ req[r].in.contentType = "ai-generated"
              /\ Truthy(req[r].in.textContent)
              /\ IsIdle(r)' /\ req'[r].res.status = 201)
                => lectures'[req[r].lec].status \in HandedOff
          /\ (ChangesToAi(r) /\ IsIdle(r)')
                => /\ req'[r].res.status = 200
                   /\ lectures'[req[r].lec].status \in HandedOff
                   /\ lectures'[req[r].lec].media = "none"]_vars

\* the stored lecture lec leaves the status processing
LeavesProcessing(lec) ==
    /\ lec \in DOMAIN lectures /\ lectures[lec].status = "processing"
    /\ lec \in DOMAIN lectures' /\ lectures'[lec].status # "processing"

\* C24: a stored lecture leaves the status processing only in a report of the
\* generation service, which is no step of a request, or in a step of an
\* update or reprocess request for that lecture; no other step, and no read
\* of the processing status, changes it.  A behaviour without such steps
\* keeps the lecture in processing at every state.
C24_ProcessingLeftOnRequest ==
    [][\A lec \in 1..OneLecture.maxId :
          LeavesProcessing(lec) =>
              \/ req' = req
              \/ \E r \in SeqSlots :
                    /\ req'[r] # req[r]
                    /\ req[r].op \in {"updateLecture", "reprocessLecture"}
                    /\ req[r].lec = lec]_vars

\* the processing status was read while the lecture is in processing, and
\* the lecture is in processing still
C24_Witness ==
    \E r \in SeqSlots :
        /\ IsIdle(r) /\ req[r].op = "processingStatus"
        /\ req[r].res = Resp(200, "processing")
        /\ 1 \in DOMAIN lectures /\ lectures[1].status = "processing"

\* slot r takes a step of a drop request for the enrollment of student s
DropSteps(r, s) ==
    /\ req'[r] # req[r]
    /\ \/ IsIdle(r) /\ req'[r].op = "dropEnrollment"
       \/ ~IsIdle(r) /\ req[r].op = "dropEnrollment" /\ req[r].in.student = s

\* C25: an enrollment stored as completed stays completed: a drop request
\* arriving for it is answered with a rejection, and no step of a drop
\* request changes its status or the course's enrollmentCount.
C25_CompletedNotDropped ==
    [][\A s \in DOMAIN enrollments :
          enrollments[s].status = "completed" =>
              /\ enrollments'[s].status = "completed"
              /\ \A r \in Slots :
                    DropSteps(r, s) =>
                        /\ IsIdle(r) /\ IsIdle(r)'
                        /\ req'[r].res.status \in {400, 404}
                        /\ enrollmentCount' = enrollmentCount]_vars

\* the progress an enrollment holds
ProgressOf(enrollment) ==
    <<enrollment.completedLectures, enrollment.totalWatchTime,
      enrollment.overallProgress>>

\* C26: while an enrollment is stored with a status other than active, a
\* progress request arriving for it is answered 404 (400 when its body is
\* not valid) and changes no enrollment, and no step changes the
\* enrollment's completedLectures, totalWatchTime or overallProgress.
C26_InactiveFrozen ==
    [][\A s \in DOMAIN enrollments :
          enrollments[s].status # "active" =>
              /\ ProgressOf(enrollments'[s]) = ProgressOf(enrollments[s])
              /\ \A r \in Slots :
                    (IsIdle(r) /\ req'[r] # req[r] /\ req'[r].op = "updateProgress")
                        => /\ IsIdle(r)'
                           /\ req'[r].res.status \in {400, 404}
                           /\ enrollments' = enrollments]_vars

\* the students whose enrollment is not dropped
NotDropped == {s \in DOMAIN enrollments : enrollments[s].status # "dropped"}

\* C27: between requests, the course's enrollmentCount is the number of its
\* enrollments that are not dropped, and it is never negative.
C27_CountMatchesEnrollments ==
    /\ enrollmentCount >= 0
    /\ (\A r \in Slots : IsIdle(r)) => enrollmentCount = Cardinality(NotDropped)

\* C28: in the step that takes an enrollment from active to completed, every
\* lecture listed in the course has a record in the enrollment's
\* completedLectures.
C28_CompletedMeansAllLectures ==
    [][\A s \in DOMAIN enrollments :
          (enrollments[s].status = "active" /\ enrollments'[s].status = "completed")
              => \A l \in Listed : HasRecord(enrollments'[s], l)]_vars

\* C29: the step of a status poll that stores the processing status
\* completed stores a video reference with it; a lecture stored as completed
\* has a video.
C29_CompletedWithVideo ==
    [][(aiLecture'.processingStatus = "completed"
           /\ aiLecture.processingStatus # "completed")
          => aiLecture'.video = "generated"]_vars

\* the lecture with this id is in the demo server's array
InDemo(d, id) == \E i \in 1..Len(d.lectures) : d.lectures[i].id = id

\* the array holds the lecture as the create request makes it
Fresh(d, id) ==
    \E i \in 1..Len(d.lectures) :
        /\ d.lectures[i].id = id
        /\ d.lectures[i].status = "processing"
        /\ d.lectures[i].videoUrl = Undefined

\* the array holds the lecture with its video
Generated(d, id) ==
    \E i \in 1..Len(d.lectures) :
        /\ d.lectures[i].id = id
        /\ d.lectures[i].status = "completed"
        /\ d.lectures[i].videoUrl # Undefined

\* C30: a lecture of the demo server starts as processing without a videoUrl;
\* once it has been deleted it is never in the array again, and the timer
\* that fires for it leaves the array as it is; and every lecture created is
\* in the end completed with a videoUrl, or deleted.
C30_DemoLectureGenerated ==
    /\ [][\A id \in DemoIds :
             /\ (demo.nextId = id /\ demo'.nextId = id + 1) => Fresh(demo', id)
             /\ (id < demo.nextId /\ ~InDemo(demo, id)) =>
                   /\ ~InDemo(demo', id)
                   /\ (id \in demo.timers /\ id \notin demo'.timers)
                         => demo'.lectures = demo.lectures]_vars
    /\ \A id \in DemoIds :
          (id < demo.nextId) ~> (Generated(demo, id) \/ ~InDemo(demo, id))

\* the timer of a deleted lecture has fired, the lecture is not in the array;
\* another lecture was generated
C30_Witness ==
    /\ 1 < demo.nextId /\ ~InDemo(demo, 1) /\ 1 \notin demo.timers
    /\ Generated(demo, 2) /\ 2 \notin demo.timers

====
